---- MODULE Spec2Model ----
(***************************************************************************)
(* A model of getImage (src/cmd/root.go), the one operation of the oci-repo *)
(* command: check the scheme, split off the tag, validate the repository,   *)
(* list the tags, parse the reference, resolve a tag to a digest by HEAD    *)
(* with a GET fallback, fetch the image, enumerate its layers, and write    *)
(* the first layer's compressed blob to <tmp>/layer.tar.gz.                 *)
(*                                                                         *)
(* Strings are sequences of lexemes.  A lexeme is an indivisible piece of   *)
(* text; the separators the code looks for (":", "@") are lexemes of their  *)
(* own and occur inside no other lexeme, so HasPrefix, TrimPrefix, Split    *)
(* and Join computed on lexemes agree with the Go functions on the text.    *)
(* The scheme "oci://" is the three lexemes "oci", ":", "//".               *)
(*                                                                         *)
(* The program ends in one of three ways, kept apart in pc:                 *)
(*   "done"   getImage returned (deferred calls ran);                       *)
(*   "fatal"  logger.Fatal: zap logs and calls os.Exit(1), deferred calls   *)
(*            do not run;                                                   *)
(*   "panic"  a Go run-time panic (index out of range, nil dereference).    *)
(***************************************************************************)
EXTENDS Integers, Sequences, FiniteSets, TLC

\* Longest text generated after the first ":" of an input.
MaxTagLen == 2
\* Most layers a manifest of the model holds.
MaxLayers == 2

-----------------------------------------------------------------------------
(* Lexemes *)

REPO == "reg.example.com/org/app"
HEX == "e3b0c44298fc1c149afbf4c8996fb92427ae41e4649b934ca495991b7852b855"

Scheme == <<"oci", ":", "//">>

\* Lexemes made only of the characters name.NewRepository accepts,
\* abcdefghijklmnopqrstuvwxyz0123456789_-./
RepositoryLexemes == {REPO, "oci", "//", "sha256", HEX, "v1", "latest"}

\* Lexemes made only of the characters a tag may hold (letters of both
\* cases, digits, "_", "-", ".").
TagLexemes == {"oci", "sha256", HEX, "v1", "V1", "latest"}

\* Lexemes holding the "/" that separates registry and repository.
SlashLexemes == {REPO, "//"}

\* Number of characters of a lexeme.
LexemeLen(x) ==
    CASE x = REPO -> 23
      [] x = HEX -> 64
      [] x = "sha256" -> 6
      [] x = "latest" -> 6
      [] x = "oci" -> 3
      [] x \in {"//", "v1", "V1"} -> 2
      [] OTHER -> 1

RECURSIVE CharLen(_)
CharLen(s) == IF s = <<>> THEN 0 ELSE LexemeLen(Head(s)) + CharLen(Tail(s))

-----------------------------------------------------------------------------
(* The strings package *)

\* A prefix test that compares the first lexeme only.
HasPrefix_FirstOnly(s, p) == Len(s) >= 1 /\ s[1] = p[1]

HasPrefix(s, p) == Len(s) >= Len(p) /\ SubSeq(s, 1, Len(p)) = p

TrimPrefix(s, p) ==
    IF Len(s) >= Len(p) /\ SubSeq(s, 1, Len(p)) = p
    THEN SubSeq(s, Len(p) + 1, Len(s))
    ELSE s

\* strings.Split(s, sep): the pieces of s between the occurrences of sep,
\* one piece (s itself, possibly empty) when sep does not occur.
RECURSIVE SplitFrom(_, _, _)
SplitFrom(s, sep, cur) ==
    IF s = <<>> THEN <<cur>>
    ELSE IF Head(s) = sep THEN <<cur>> \o SplitFrom(Tail(s), sep, <<>>)
    ELSE SplitFrom(Tail(s), sep, Append(cur, Head(s)))

Split(s, sep) == SplitFrom(s, sep, <<>>)

RECURSIVE Join(_, _)
Join(parts, sep) ==
    IF parts = <<>> THEN <<>>
    ELSE IF Len(parts) = 1 THEN parts[1]
    ELSE parts[1] \o <<sep>> \o Join(Tail(parts), sep)

\* slices.Contains
Contains(list, x) == \E k \in 1..Len(list) : list[k] = x

-----------------------------------------------------------------------------
(* The name package of the registry client library, as the code calls it *)

AllIn(s, lexemes) == \A k \in 1..Len(s) : s[k] \in lexemes

\* name.NewRepository(s): s is not empty and holds only repository
\* characters, between 2 and 255 of them.  A ":" or an "@" is no repository
\* character, wherever the registry part ends.
NewRepository(s) ==
    [ok |-> s # <<>> /\ AllIn(s, RepositoryLexemes)
                /\ CharLen(s) >= 2 /\ CharLen(s) <= 255,
     name |-> s]

\* checkTag: only tag characters, between 1 and 128 of them.
checkTag(t) == AllIn(t, TagLexemes) /\ CharLen(t) >= 1 /\ CharLen(t) <= 128

NoRef == [kind |-> "err", repo |-> <<>>, id |-> <<>>]

\* name.NewTag(s): the text after the last ":" is the tag unless it holds a
\* "/" (then the ":" belongs to a host:port).  An empty tag after a ":" is
\* rejected by the library versions that check it (rejectEmpty) and replaced
\* by the default tag "latest" by the others.
NewTag(s, rejectEmpty) ==
    LET parts == Split(s, ":")
        last == parts[Len(parts)]
        hasTag == Len(parts) > 1 /\ ~(\E k \in 1..Len(last) : last[k] \in SlashLexemes)
        base == IF hasTag THEN Join(SubSeq(parts, 1, Len(parts) - 1), ":") ELSE s
        t == IF hasTag THEN last ELSE <<>>
    IN  IF hasTag /\ t = <<>> /\ rejectEmpty THEN NoRef
        ELSE IF t # <<>> /\ ~checkTag(t) THEN NoRef
        ELSE IF ~NewRepository(base).ok THEN NoRef
        ELSE [kind |-> "Tag", repo |-> base,
              id |-> IF t = <<>> THEN <<"latest">> ELSE t]

\* name.NewDigest(s): exactly one "@", followed by "sha256:" and 64 hex
\* characters; what precedes the "@" is a repository, with or without a tag.
NewDigest(s, rejectEmpty) ==
    LET parts == Split(s, "@")
    IN  IF Len(parts) # 2 THEN NoRef
        ELSE IF parts[2] # <<"sha256", ":", HEX>> THEN NoRef
        ELSE LET t == NewTag(parts[1], rejectEmpty)
                 base == IF t.kind = "Tag" THEN t.repo ELSE parts[1]
             IN  IF ~NewRepository(base).ok THEN NoRef
                 ELSE [kind |-> "Digest", repo |-> base, id |-> parts[2]]

\* name.ParseReference(s): a tag reference if s parses as one, else a digest
\* reference if s parses as one, else an error.
ParseReference(s, rejectEmpty) ==
    IF NewTag(s, rejectEmpty).kind = "Tag" THEN NewTag(s, rejectEmpty)
    ELSE NewDigest(s, rejectEmpty)

-----------------------------------------------------------------------------
(* The inputs and the answers of the registry and the filesystem *)

\* What may precede the repository: nothing, the scheme, the scheme cut short.
SchemeParts == {<<>>, Scheme, <<"oci", ":">>}

RepoParts == {<<>>, <<REPO>>, <<"V1">>}

TagAlphabet == {"v1", "!", ":"}

SeqsUpTo(S, n) == UNION {[1..k -> S] : k \in 0..n}

\* Nothing, or a ":" and up to MaxTagLen lexemes.
TagParts == {<<>>} \cup {<<":">> \o t : t \in SeqsUpTo(TagAlphabet, MaxTagLen)}

\* Nothing, a digest, a digest with a bad hex part, one with a bad algorithm.
DigestParts ==
    {<<>>, <<"@", "sha256", ":", HEX>>, <<"@", "sha256", ":", "v1">>,
     <<"@", "v1", ":", HEX>>}

Inputs ==
    {s \o r \o t \o d :
        s \in SchemeParts, r \in RepoParts, t \in TagParts, d \in DigestParts}

\* Digests the registry may report; "" is the zero gcrv1.Hash.
Digests == {"sha256:aaa", "sha256:bbb"}

\* Tag lists remote.List may return.
TagLists == {<<>>, <<(<<"latest">>)>>, <<(<<"v1">>), (<<"latest">>)>>}

MediaTypes == {"tar+gzip", "other"}

\* The manifests remote.Image may return: up to MaxLayers layers in registry
\* order, each with a media type, whether its Digest() fails, and its blob
\* (layer k of a manifest holds blob k, so the blobs of a manifest differ).
Manifests ==
    UNION {
        {[k \in 1..n |-> [mediaType |-> m[k], digestErr |-> e[k], blob |-> k]] :
            m \in [1..n -> MediaTypes], e \in [1..n -> BOOLEAN]} :
        n \in 0..MaxLayers}

-----------------------------------------------------------------------------
(* The state of one run of getImage *)

VARIABLES
    ociImage,    \* the --ociImage flag
    pc,          \* where getImage stands, or how it ended
    failure,     \* the message of the logger.Fatal or of the panic that ended it
    url,         \* ociImage without the scheme
    tag,         \* the text between the first and the second ":" of url
    tags,        \* what remote.List returned
    warned,      \* "Tag ... not found in repository" was logged
    ref,         \* what name.ParseReference returned
    headResult,  \* "", "err", or the digest remote.Head returned
    getResult,   \* "", "err", or the digest remote.Get returned
    digest,      \* the local digest of the name.Tag case ("" is the zero Hash)
    revision,    \* "<tag>@<digest>", empty until composed
    calls,       \* the registry calls issued so far, in order
    img,         \* the manifest remote.Image fetched
    layers,      \* what img.Layers() returned
    enumerated,  \* per layer visited by the loop: "ok", or "err" (skipped)
    layer,       \* index of the layer chosen, -1 before the choice
    dir,         \* the directory os.MkdirTemp made, "" before
    fsOps,       \* the filesystem operations performed so far, in order
    blob,        \* the blob the open stream reads, 0 when none was opened
    blobOpen,    \* the blob stream is open
    data,        \* what io.ReadAll returned, 0 before
    files        \* the files written: path and content

vars ==
    <<ociImage, pc, failure, url, tag, tags, warned, ref, headResult, getResult,
      digest, revision, calls, img, layers, enumerated, layer, dir, fsOps, blob,
      blobOpen, data, files>>

resolverVars == <<url, tag, tags, warned, ref, headResult, getResult, digest, revision>>
extractorVars == <<img, layers, enumerated, layer, dir, fsOps, blob, blobOpen, data, files>>

Init ==
    /\ ociImage \in Inputs
    /\ pc = "start"
    /\ failure = ""
    /\ url = <<>>
    /\ tag = <<>>
    /\ tags = <<>>
    /\ warned = FALSE
    /\ ref = NoRef
    /\ headResult = ""
    /\ getResult = ""
    /\ digest = ""
    /\ revision = <<>>
    /\ calls = <<>>
    /\ img = <<>>
    /\ layers = <<>>
    /\ enumerated = <<>>
    /\ layer = -1
    /\ dir = ""
    /\ fsOps = <<>>
    /\ blob = 0
    /\ blobOpen = FALSE
    /\ data = 0
    /\ files = {}

\* logger.Fatal(msg): zap writes the entry and calls os.Exit(1).
Fatal(msg) == pc' = "fatal" /\ failure' = msg

\* A run-time panic of the Go program.
Panic(msg) == pc' = "panic" /\ failure' = msg

\* fmt.Sprintf("%s@%s", tag, digest)
Revision(t, d) == t \o <<"@", d>>

\* The first layer whose Digest() did not fail, layer 0 when all failed.
SelectedIndex_FirstOk(ls) ==
    IF \E k \in 1..Len(ls) : ~ls[k].digestErr
    THEN (CHOOSE k \in 1..Len(ls) :
            ~ls[k].digestErr /\ \A j \in 1..(k - 1) : ls[j].digestErr) - 1
    ELSE 0

\* layers[0]
SelectedIndex(ls) == 0

-----------------------------------------------------------------------------
(* The steps of getImage *)

\* if !strings.HasPrefix(ociImage, "oci://") { logger.Fatal(...) }
CheckScheme ==
    /\ pc = "start"
    /\ IF ~HasPrefix(ociImage, Scheme)
       THEN Fatal("Image must be in the format oci://<domain>/<org>/<repo>")
       ELSE pc' = "split" /\ failure' = failure
    /\ UNCHANGED <<ociImage, resolverVars, calls, extractorVars>>

\* url := strings.TrimPrefix(ociImage, "oci://"); tag := strings.Split(url, ":")[1]
SplitTag ==
    /\ pc = "split"
    /\ url' = TrimPrefix(ociImage, Scheme)
    /\ LET parts == Split(url', ":")
       IN  IF Len(parts) < 2
           THEN Panic("index out of range [1] with length 1") /\ tag' = tag
           ELSE pc' = "repository" /\ failure' = failure /\ tag' = parts[2]
    /\ UNCHANGED <<ociImage, tags, warned, ref, headResult, getResult, digest,
                   revision, calls, extractorVars>>

\* r, err := name.NewRepository(strings.Split(url, ":")[0])
ValidateRepository ==
    /\ pc = "repository"
    /\ IF ~NewRepository(Split(url, ":")[1]).ok
       THEN Fatal("Error parsing repository")
       ELSE pc' = "list" /\ failure' = failure
    /\ UNCHANGED <<ociImage, resolverVars, calls, extractorVars>>

\* tags, err := remote.List(r, ...); an empty tag becomes "latest"; a tag
\* missing from the list is only logged.
ListTags ==
    /\ pc = "list"
    /\ calls' = Append(calls, "List")
    /\ \/ /\ Fatal("Error listing tags")
          /\ UNCHANGED <<tags, tag, warned>>
       \/ \E ts \in TagLists :
            /\ tags' = ts
            /\ tag' = IF tag = <<>> THEN <<"latest">> ELSE tag
            /\ warned' = ~Contains(ts, tag')
            /\ pc' = "parse"
            /\ failure' = failure
    /\ UNCHANGED <<ociImage, url, ref, headResult, getResult, digest, revision,
                   extractorVars>>

\* ref, err := name.ParseReference(url)
ParseRef ==
    /\ pc = "parse"
    /\ \E rejectEmpty \in BOOLEAN :
         /\ ref' = ParseReference(url, rejectEmpty)
         /\ IF ref'.kind = "err"
            THEN Fatal("Error parsing image reference")
            ELSE pc' = "resolve" /\ failure' = failure
    /\ UNCHANGED <<ociImage, url, tag, tags, warned, headResult, getResult, digest,
                   revision, calls, extractorVars>>

\* HeadCheck with the test of err inverted: a successful HEAD goes on to
\* remote.Get, a failed one reads the digest of the nil descriptor.
HeadCheck_Inverted ==
    /\ pc = "resolve"
    /\ ref.kind = "Tag"
    /\ calls' = Append(calls, "Head")
    /\ \/ \E d \in Digests :
            /\ headResult' = d
            /\ pc' = "get"
            /\ failure' = failure
       \/ /\ headResult' = "err"
          /\ Panic("invalid memory address or nil pointer dereference")
    /\ UNCHANGED <<ociImage, url, tag, tags, warned, ref, getResult, digest,
                   revision, extractorVars>>

\* case name.Tag: desc, err := remote.Head(ref, ...); on success the digest is
\* desc.Digest and the revision is composed, on failure remote.Get is next.
HeadCheck ==
    /\ pc = "resolve"
    /\ ref.kind = "Tag"
    /\ calls' = Append(calls, "Head")
    /\ \/ \E d \in Digests :
            /\ headResult' = d
            /\ digest' = d
            /\ revision' = Revision(tag, d)
            /\ pc' = "image"
       \/ /\ headResult' = "err"
          /\ pc' = "get"
          /\ UNCHANGED <<digest, revision>>
    /\ UNCHANGED <<ociImage, failure, url, tag, tags, warned, ref, getResult,
                   extractorVars>>

\* The switch has no case for a name.Digest: nothing is resolved and the
\* revision stays empty.
DigestGiven ==
    /\ pc = "resolve"
    /\ ref.kind = "Digest"
    /\ pc' = "image"
    /\ UNCHANGED <<ociImage, failure, resolverVars, calls, extractorVars>>

\* GetFallback that tries remote.Get again after an error.
GetFallback_Retry ==
    /\ pc = "get"
    /\ calls' = Append(calls, "Get")
    /\ \/ \E d \in Digests :
            /\ getResult' = d
            /\ digest' = d
            /\ revision' = Revision(tag, d)
            /\ pc' = "image"
       \/ /\ getResult' = "err"
          /\ pc' = "get"
          /\ UNCHANGED <<digest, revision>>
    /\ UNCHANGED <<ociImage, failure, url, tag, tags, warned, ref, headResult,
                   extractorVars>>

\* gdesc, err := remote.Get(ref, ...); an error is logged with logger.Error,
\* which returns, and gdesc.Descriptor.Digest then dereferences the nil gdesc.
GetFallback ==
    /\ pc = "get"
    /\ calls' = Append(calls, "Get")
    /\ \/ \E d \in Digests :
            /\ getResult' = d
            /\ digest' = d
            /\ revision' = Revision(tag, d)
            /\ pc' = "image"
            /\ failure' = failure
       \/ /\ getResult' = "err"
          /\ Panic("invalid memory address or nil pointer dereference")
          /\ UNCHANGED <<digest, revision>>
    /\ UNCHANGED <<ociImage, url, tag, tags, warned, ref, headResult, extractorVars>>

\* img, err := remote.Image(ref, ...)
FetchImage ==
    /\ pc = "image"
    /\ calls' = Append(calls, "Image")
    /\ \/ /\ Fatal("Error getting image")
          /\ img' = img
       \/ \E m \in Manifests :
            /\ img' = m
            /\ pc' = "layers"
            /\ failure' = failure
    /\ UNCHANGED <<ociImage, resolverVars, layers, enumerated, layer, dir, fsOps,
                   blob, blobOpen, data, files>>

\* layers, err := img.Layers()
GetLayers ==
    /\ pc = "layers"
    /\ \/ /\ Fatal("Error getting layers")
          /\ layers' = layers
       \/ /\ layers' = img
          /\ pc' = "enumerate"
          /\ failure' = failure
    /\ UNCHANGED <<ociImage, resolverVars, calls, img, enumerated, layer, dir, fsOps,
                   blob, blobOpen, data, files>>

\* One round of "for _, l := range layers": the layer's digest, media type
\* and size are logged; a Digest() error is logged and the round ends early.
EnumerateLayer ==
    /\ pc = "enumerate"
    /\ Len(enumerated) < Len(layers)
    /\ enumerated' =
         Append(enumerated,
                IF layers[Len(enumerated) + 1].digestErr THEN "err" ELSE "ok")
    /\ UNCHANGED <<ociImage, pc, failure, resolverVars, calls, img, layers, layer,
                   dir, fsOps, blob, blobOpen, data, files>>

\* layer = layers[0]
SelectLayer ==
    /\ pc = "enumerate"
    /\ Len(enumerated) = Len(layers)
    /\ IF SelectedIndex(layers) >= Len(layers)
       THEN Panic("index out of range [0] with length 0") /\ layer' = layer
       ELSE layer' = SelectedIndex(layers) /\ pc' = "mkdir" /\ failure' = failure
    /\ UNCHANGED <<ociImage, resolverVars, calls, img, layers, enumerated, dir,
                   fsOps, blob, blobOpen, data, files>>

\* dir, err := os.MkdirTemp("/tmp", "layer")
MkdirTemp ==
    /\ pc = "mkdir"
    /\ fsOps' = Append(fsOps, "MkdirTemp")
    /\ \/ /\ Fatal("Error creating temp dir")
          /\ dir' = dir
       \/ /\ dir' = "/tmp/layer1"
          /\ pc' = "compressed"
          /\ failure' = failure
    /\ UNCHANGED <<ociImage, resolverVars, calls, img, layers, enumerated, layer,
                   blob, blobOpen, data, files>>

\* blob, err := layer.Compressed(); defer blob.Close()
Compressed ==
    /\ pc = "compressed"
    /\ calls' = Append(calls, "Blob")
    /\ \/ /\ Fatal("Error getting compressed layer")
          /\ UNCHANGED <<blob, blobOpen>>
       \/ /\ blob' = layers[layer + 1].blob
          /\ blobOpen' = TRUE
          /\ pc' = "read"
          /\ failure' = failure
    /\ UNCHANGED <<ociImage, resolverVars, img, layers, enumerated, layer, dir,
                   fsOps, data, files>>

\* data, err := io.ReadAll(blob)
ReadAll ==
    /\ pc = "read"
    /\ \/ /\ Fatal("Error reading blob")
          /\ data' = data
       \/ /\ data' = blob
          /\ pc' = "write"
          /\ failure' = failure
    /\ UNCHANGED <<ociImage, resolverVars, calls, img, layers, enumerated, layer,
                   dir, fsOps, blob, blobOpen, files>>

\* err = os.WriteFile(dir + "/layer.tar.gz", data, 0644)
WriteFile ==
    /\ pc = "write"
    /\ fsOps' = Append(fsOps, "WriteFile")
    /\ \/ /\ Fatal("Error writing file")
          /\ files' = files
       \/ /\ files' = files \cup {[path |-> <<dir, "/", "layer.tar.gz">>, data |-> data]}
          /\ pc' = "return"
          /\ failure' = failure
    /\ UNCHANGED <<ociImage, resolverVars, calls, img, layers, enumerated, layer,
                   dir, blob, blobOpen, data>>

\* getImage returns: the deferred blob.Close() runs.
Return ==
    /\ pc = "return"
    /\ blobOpen' = FALSE
    /\ pc' = "done"
    /\ UNCHANGED <<ociImage, failure, resolverVars, calls, img, layers, enumerated,
                   layer, dir, fsOps, blob, data, files>>

Next ==
    \/ CheckScheme
    \/ SplitTag
    \/ ValidateRepository
    \/ ListTags
    \/ ParseRef
    \/ HeadCheck
    \/ DigestGiven
    \/ GetFallback
    \/ FetchImage
    \/ GetLayers
    \/ EnumerateLayer
    \/ SelectLayer
    \/ MkdirTemp
    \/ Compressed
    \/ ReadAll
    \/ WriteFile
    \/ Return

Spec == Init /\ [][Next]_vars

-----------------------------------------------------------------------------
(* Properties *)

Terminal == {"done", "fatal", "panic"}

Count(log, x) == Cardinality({k \in 1..Len(log) : log[k] = x})

NoRegistryCall == calls = <<>>

NoFilesystemOp == fsOps = <<>> /\ dir = "" /\ files = {}

\* The input does not start with "oci://".
LacksScheme(s) == Len(s) < 3 \/ SubSeq(s, 1, 3) # <<"oci", ":", "//">>

\* The input without its first three lexemes.
AfterScheme(s) == SubSeq(s, 4, Len(s))

HasColon(s) == \E k \in 1..Len(s) : s[k] = ":"

MsgScheme == "Image must be in the format oci://<domain>/<org>/<repo>"

\* C1: an input that does not start with "oci://" makes getImage fail with
\* the invalid-format error, with no registry call issued and no filesystem
\* operation performed.
C1_NoSchemeFailsBeforeAnyCall ==
    (LacksScheme(ociImage) /\ pc # "start") =>
        /\ pc = "fatal"
        /\ failure = MsgScheme
        /\ NoRegistryCall
        /\ NoFilesystemOp

C1_Witness ==
    /\ LacksScheme(ociImage)
    /\ ociImage # <<>>
    /\ pc = "fatal"
    /\ failure = MsgScheme

\* C2: an input "oci://<host>/<org>/<repo>" with no ":" after the scheme
\* gets the tag "latest" and goes on to the repository validation and the
\* list-tags call; it does not crash for want of a tag.
C2_NoTagDefaultsToLatest ==
    (/\ ~LacksScheme(ociImage)
     /\ ~HasColon(AfterScheme(ociImage))
     /\ AfterScheme(ociImage) = <<REPO>>
     /\ pc \notin {"start", "split"}) =>
        /\ pc # "panic"
        /\ pc \notin {"repository", "list"} =>
             /\ Count(calls, "List") = 1
             /\ pc # "fatal" => tag = <<"latest">>

\* C3: when the HEAD check and the fallback GET both fail, getImage ends in
\* a fatal digest-resolution error, with no revision composed, no image
\* fetch issued and nothing written.
C3_BothFailIsFatal ==
    (headResult = "err" /\ getResult = "err") =>
        /\ pc = "fatal"
        /\ revision = <<>>
        /\ Count(calls, "Image") = 0
        /\ NoFilesystemOp

\* img.Layers() returned an empty list.
ZeroLayers ==
    /\ Count(calls, "Image") = 1
    /\ layers = <<>>
    /\ pc \notin {"image", "layers"}
    /\ failure \notin {"Error getting image", "Error getting layers"}

\* C4: a manifest with zero layers makes getImage fail with a no-layers
\* error, a defined error outcome, with no filesystem operation performed.
C4_ZeroLayersIsAnError ==
    ZeroLayers =>
        /\ NoFilesystemOp
        /\ pc # "panic"
        /\ pc # "enumerate" => pc = "fatal"

\* The input is "oci://<repository>@sha256:<hex>".
DigestInput(s) ==
    /\ ~LacksScheme(s)
    /\ Len(s) >= 8
    /\ SubSeq(s, Len(s) - 3, Len(s)) = <<"@", "sha256", ":", HEX>>
    /\ SubSeq(s, 4, Len(s) - 4) = <<REPO>>

\* C5: a digest-based input issues neither the HEAD check nor the fallback
\* GET and is not rejected: it reaches the image fetch as a digest reference
\* with the digest it was given.
C5_DigestPassesThrough ==
    DigestInput(ociImage) =>
        /\ Count(calls, "Head") = 0
        /\ Count(calls, "Get") = 0
        /\ pc # "panic"
        /\ failure \notin {MsgScheme, "Error parsing repository",
                           "Error parsing image reference"}
        /\ Count(calls, "Image") >= 1 =>
             /\ ref.kind = "Digest"
             /\ ref.id = <<"sha256", ":", HEX>>

\* C6: when the HEAD check of a tag reference succeeds, the revision is
\* "<tag>@<digest>" with the digest HEAD returned, and the fallback GET is
\* never issued.
C6_HeadDigestIsUsed ==
    (ref.kind = "Tag" /\ headResult \in Digests) =>
        /\ Count(calls, "Get") = 0
        /\ getResult = ""
        /\ digest = headResult
        /\ revision = tag \o <<"@", headResult>>

C6_Witness ==
    /\ ref.kind = "Tag"
    /\ headResult = "sha256:aaa"
    /\ tag = <<"v1">>
    /\ revision = <<"v1", "@", "sha256:aaa">>
    /\ pc = "done"

\* C7: when the HEAD check of a tag reference fails, exactly one fallback
\* GET is issued before resolution succeeds or fails: none is outstanding
\* once resolution is over, none is repeated, and HEAD is not repeated.
C7_ExactlyOneFallback ==
    /\ Count(calls, "Head") <= 1
    /\ Count(calls, "Get") <= 1
    /\ headResult = "err" =>
         /\ Count(calls, "Head") = 1
         /\ pc = "get" => Count(calls, "Get") = 0
         /\ pc # "get" => Count(calls, "Get") = 1 /\ getResult # ""
    /\ headResult # "err" => Count(calls, "Get") = 0

C7_Witness ==
    /\ headResult = "err"
    /\ getResult \in Digests
    /\ calls = <<"List", "Head", "Get", "Image", "Blob">>
    /\ pc = "done"

\* C8: with one layer or more, whatever the media types and whichever
\* layers fail in the enumeration, the enumeration visits every layer and
\* the run does not end before a layer is chosen; the layer chosen, the blob
\* fetched and the content written to <dir>/layer.tar.gz are those of the
\* first layer of the manifest.
C8_FirstLayerIsExtracted ==
    /\ layer \in {-1, 0}
    /\ blob # 0 => blob = layers[1].blob
    /\ data # 0 => data = layers[1].blob
    /\ \A f \in files :
         f.data = layers[1].blob /\ f.path = <<dir, "/", "layer.tar.gz">>
    /\ (Len(layers) >= 1 /\ pc # "enumerate") =>
         /\ Len(enumerated) = Len(layers)
         /\ layer = 0
         /\ pc # "panic"
    /\ pc = "done" => Cardinality(files) = 1

C8_Witness ==
    /\ pc = "done"
    /\ Len(layers) >= 2
    /\ layers[1].digestErr
    /\ layers[1].mediaType = "other"
    /\ enumerated[1] = "err"
    /\ files = {[path |-> <<dir, "/", "layer.tar.gz">>, data |-> layers[1].blob]}

\* C9: every way getImage ends after the temporary directory was made or
\* the blob stream was opened leaves the stream closed.  (os.MkdirTemp
\* returns a path and keeps no handle on the directory, so the stream is the
\* resource that can still be held.)
C9_StreamClosedOnEveryExit ==
    (pc \in Terminal /\ (dir # "" \/ blob # 0)) => ~blobOpen

\* C10: when getImage fails because the reference is malformed (scheme
\* missing, repository rejected, or reference rejected by the parser), no
\* registry call was issued before the failure.
C10_ValidationBeforeNetwork ==
    (/\ pc = "fatal"
     /\ failure \in {MsgScheme, "Error parsing repository",
                     "Error parsing image reference"}) =>
        NoRegistryCall

====
